---- MODULE Spec2Model ----
(***************************************************************************)
(* Carbon Footprint Tracker (src/app.js): the emissions calculation        *)
(* (calculateFootprint), the lookup of the previous calculation, the       *)
(* rendering of the result and the saving of it to the log store           *)
(* (saveCalculation), the page load with its demo data (initializeApp,     *)
(* loadDemoData), and the account handlers with the gated export.          *)
(*                                                                         *)
(* JavaScript numbers are modelled as exact rationals n/d kept in lowest   *)
(* terms, plus the value NaN.  The bounded inputs never produce an         *)
(* infinity.  Text typed into a form field is a sequence of one-character  *)
(* strings, so that parseFloat is modelled by what it does to the text.    *)
(***************************************************************************)
EXTENDS Integers, Sequences, FiniteSets, TLC

(***************************************************************************)
(* Numbers                                                                 *)
(***************************************************************************)
RECURSIVE GCD(_, _)
GCD(a, b) == IF b = 0 THEN a ELSE GCD(b, a % b)

AbsInt(a) == IF a < 0 THEN -a ELSE a

NaN == [nan |-> TRUE, n |-> 0, d |-> 1]

\* the number n/d (d # 0) in lowest terms with a positive denominator
R(n, d) ==
    LET g == GCD(AbsInt(n), AbsInt(d))
        s == IF d < 0 THEN -1 ELSE 1
    IN  [nan |-> FALSE, n |-> s * (n \div g), d |-> s * (d \div g)]

Zero == R(0, 1)

IsNaN(x) == x.nan

\* JavaScript a * b
Mul(a, b) ==
    IF a.nan \/ b.nan THEN NaN
    ELSE LET g1 == GCD(AbsInt(a.n), b.d)
             g2 == GCD(AbsInt(b.n), a.d)
         IN  IF a.n = 0 \/ b.n = 0 THEN Zero
             ELSE R((a.n \div g1) * (b.n \div g2), (a.d \div g2) * (b.d \div g1))

\* JavaScript a + b
Add(a, b) ==
    IF a.nan \/ b.nan THEN NaN
    ELSE LET g == GCD(a.d, b.d)
         IN  R(a.n * (b.d \div g) + b.n * (a.d \div g), (a.d \div g) * b.d)

Neg(a) == IF a.nan THEN NaN ELSE [a EXCEPT !.n = -a.n]

\* JavaScript a - b
Sub(a, b) == Add(a, Neg(b))

\* JavaScript a / b for b # 0
Div(a, b) ==
    IF a.nan \/ b.nan THEN NaN
    ELSE Mul(a, R(b.d, b.n))

\* JavaScript a < b (false when either side is NaN)
Lt(a, b) == ~a.nan /\ ~b.nan /\ Sub(a, b).n < 0

\* JavaScript a > b
Gt(a, b) == Lt(b, a)

\* a <= b for numbers
Le(a, b) == ~a.nan /\ ~b.nan /\ Sub(a, b).n <= 0

\* Math.abs
MathAbs(a) == IF a.nan THEN NaN ELSE [a EXCEPT !.n = AbsInt(a.n)]

\* Math.max(a, b)
MathMax(a, b) == IF a.nan \/ b.nan THEN NaN ELSE IF Lt(a, b) THEN b ELSE a

\* Math.min(a, b)
MathMin(a, b) == IF a.nan \/ b.nan THEN NaN ELSE IF Lt(b, a) THEN b ELSE a

(***************************************************************************)
(* parseFloat on the text of a form field                                  *)
(***************************************************************************)
DigitChars == {"0", "1", "2", "3", "4", "5", "6", "7", "8", "9"}

DigitVal(c) ==
    CASE c = "0" -> 0 [] c = "1" -> 1 [] c = "2" -> 2 [] c = "3" -> 3
      [] c = "4" -> 4 [] c = "5" -> 5 [] c = "6" -> 6 [] c = "7" -> 7
      [] c = "8" -> 8 [] c = "9" -> 9

\* index of the first character of s at or after i that is not a blank
RECURSIVE SkipBlanks(_, _)
SkipBlanks(s, i) ==
    IF i <= Len(s) /\ s[i] = " " THEN SkipBlanks(s, i + 1) ELSE i

\* reads the run of digits of s that starts at i: <<value, scale, next index>>
RECURSIVE ScanDigits(_, _, _, _)
ScanDigits(s, i, acc, scale) ==
    IF i <= Len(s) /\ s[i] \in DigitChars
    THEN ScanDigits(s, i + 1, acc * 10 + DigitVal(s[i]), scale * 10)
    ELSE <<acc, scale, i>>

\* the number with integer digits ip and fraction digits fp (both as read by
\* ScanDigits), NaN when neither holds a digit
Magnitude(neg, p1, ip, fp, hasDot) ==
    IF (ip[3] - p1) + (IF hasDot THEN fp[3] - (ip[3] + 1) ELSE 0) = 0 THEN NaN
    ELSE IF neg THEN R(-(ip[1] * fp[2] + fp[1]), fp[2])
    ELSE R(ip[1] * fp[2] + fp[1], fp[2])

\* the fraction behind the integer digits ip, when a point follows them
ParseFraction(s, neg, p1, ip) ==
    IF ip[3] <= Len(s) /\ s[ip[3]] = "."
    THEN Magnitude(neg, p1, ip, ScanDigits(s, ip[3] + 1, 0, 1), TRUE)
    ELSE Magnitude(neg, p1, ip, <<0, 1, ip[3]>>, FALSE)

\* the number that starts at p0 with an optional sign
ParseSigned(s, p0) ==
    IF p0 <= Len(s) /\ s[p0] \in {"-", "+"}
    THEN ParseFraction(s, s[p0] = "-", p0 + 1, ScanDigits(s, p0 + 1, 0, 1))
    ELSE ParseFraction(s, FALSE, p0, ScanDigits(s, p0, 0, 1))

\* parseFloat(s): the longest numeric prefix (sign, digits, fraction) after
\* leading blanks, NaN when there is none; what follows the prefix is ignored
ParseFloat(s) == ParseSigned(s, SkipBlanks(s, 1))

(***************************************************************************)
(* Configuration                                                           *)
(***************************************************************************)
FactorGroups == {"transport", "energy", "food", "waste", "shopping"}

\* the table getConfig returns when no CONFIG is loaded
FallbackFactors ==
    [transport |-> [car |-> R(41, 100), flightShort |-> R(158, 1000),
                    publicTransport |-> R(53, 1000)],
     energy    |-> [electricity |-> R(233, 1000), gas |-> R(53, 10)],
     food      |-> [meatMeal |-> R(719, 100), dairyServing |-> R(5, 2)],
     waste     |-> [wasteBag |-> R(5, 2), recyclingOffset |-> R(-12, 10)],
     shopping  |-> [general |-> R(5, 1000), electronics |-> R(50, 1)]]

FallbackConfig ==
    [defined |-> TRUE, isNull |-> FALSE, demoMode |-> TRUE,
     hasEmissionFactors |-> TRUE, groups |-> FactorGroups,
     emissionFactors |-> FallbackFactors,
     hasConversions |-> TRUE,
     conversions |-> [kgToTonnes |-> R(1, 1000), treesPerTonne |-> R(20, 1)]]

\* no CONFIG global at all: typeof CONFIG is 'undefined'
UndefinedConfig == [FallbackConfig EXCEPT !.defined = FALSE]

\* a loaded table whose recycling credit equals the waste it offsets and
\* whose totals are reported in short tons
RegionalConfig ==
    [FallbackConfig EXCEPT
       !.demoMode = FALSE,
       !.emissionFactors =
          [transport |-> [car |-> R(1, 4), flightShort |-> R(1, 10),
                          publicTransport |-> R(0, 1)],
           energy    |-> [electricity |-> R(1, 2), gas |-> R(2, 1)],
           food      |-> [meatMeal |-> R(3, 1), dairyServing |-> R(3, 2)],
           waste     |-> [wasteBag |-> R(2, 1), recyclingOffset |-> R(-1, 1)],
           shopping  |-> [general |-> R(1, 100), electronics |-> R(40, 1)]],
       !.conversions = [kgToTonnes |-> R(11, 10000), treesPerTonne |-> R(20, 1)]]

\* CONFIG = null
NullConfig == [FallbackConfig EXCEPT !.isNull = TRUE]

\* a CONFIG object without emissionFactors
NoFactorsConfig == [FallbackConfig EXCEPT !.hasEmissionFactors = FALSE]

\* emissionFactors without one of its groups
MissingGroupConfig(g) == [FallbackConfig EXCEPT !.groups = FactorGroups \ {g}]

\* a CONFIG object without conversions
NoConversionsConfig == [FallbackConfig EXCEPT !.hasConversions = FALSE]

WellFormedConfigs == {UndefinedConfig, FallbackConfig, RegionalConfig}

NoFactorsConfigs == {NullConfig, NoFactorsConfig}

MalformedConfigs ==
    {MissingGroupConfig(g) : g \in FactorGroups} \cup {NoConversionsConfig}

Configs == WellFormedConfigs \cup NoFactorsConfigs \cup MalformedConfigs

WellFormed(c) ==
    /\ ~c.isNull
    /\ c.hasEmissionFactors
    /\ c.groups = FactorGroups
    /\ c.hasConversions

\* getConfig(): the CONFIG global when there is one, the fallback otherwise
getConfig(c) == IF c.defined THEN c ELSE FallbackConfig

(***************************************************************************)
(* The calculator form                                                     *)
(***************************************************************************)
TransportFields == {"car-miles", "flights", "public-transport"}
EnergyFields    == {"electricity", "gas", "renewable-percent"}
FoodFields      == {"meat-meals", "dairy-products", "local-food"}
WasteFields     == {"waste-bags", "recycling-percent"}
ShoppingFields  == {"shopping-spend", "electronics"}

Fields ==
    TransportFields \cup EnergyFields \cup FoodFields \cup WasteFields
      \cup ShoppingFields

PercentFields == {"renewable-percent", "local-food", "recycling-percent"}

\* an input element holding the text v, and a form without the element
Element(v) == [present |-> TRUE, value |-> v]
NoElement  == [present |-> FALSE, value |-> <<>>]

(***************************************************************************)
(* calculateFootprint: the arithmetic                                      *)
(***************************************************************************)
\* variant: the test value < 0 is left out
NonNegativeKeepsNegative(value) == IF IsNaN(value) THEN Zero ELSE value

\* variant: the test isNaN(value) is left out
NonNegativeKeepsNaN(value) == IF Lt(value, Zero) THEN Zero ELSE value

\* isNaN(value) || value < 0 ? 0 : value
NonNegative(value) == IF IsNaN(value) \/ Lt(value, Zero) THEN Zero ELSE value

\* variant: a missing element is read as NaN
safeParseFloatMissingIsNaN(frm, elementId) ==
    IF ~frm[elementId].present THEN NaN
    ELSE NonNegative(ParseFloat(frm[elementId].value))

\* safeParseFloat(elementId): 0 for a missing element, for text that is not
\* a number and for a negative number
safeParseFloat(frm, elementId) ==
    IF ~frm[elementId].present THEN Zero
    ELSE NonNegative(ParseFloat(frm[elementId].value))

\* variant: the percentage is not capped at 100
ClampPercentUncapped(x) == MathMax(Zero, x)

\* Math.min(100, Math.max(0, x))
ClampPercent(x) == MathMin(R(100, 1), MathMax(Zero, x))

\* reading factors.<group>.<name> or CONFIG_TO_USE.conversions.kgToTonnes
\* throws a TypeError when factors, the group or conversions is missing
Throws(cfg) ==
    ~cfg.hasEmissionFactors \/ cfg.groups # FactorGroups \/ ~cfg.hasConversions

\* Transport
carMiles(frm)        == safeParseFloat(frm, "car-miles")
flights(frm)         == safeParseFloat(frm, "flights")
publicTransport(frm) == safeParseFloat(frm, "public-transport")

transportCarCo2e(factors, frm) ==
    Mul(Mul(carMiles(frm), factors.transport.car), R(12, 1))

\* variant: the flights are annualized like the monthly quantities
transportFlightsCo2eTimes12(factors, frm) ==
    Mul(Mul(Mul(flights(frm), R(1000, 1)), factors.transport.flightShort), R(12, 1))

transportFlightsCo2e(factors, frm) ==
    Mul(Mul(flights(frm), R(1000, 1)), factors.transport.flightShort)

transportPublicCo2e(factors, frm) ==
    Mul(Mul(publicTransport(frm), factors.transport.publicTransport), R(12, 1))

\* Energy
electricity(frm)      == safeParseFloat(frm, "electricity")
gas(frm)              == safeParseFloat(frm, "gas")
renewablePercent(frm) == ClampPercent(safeParseFloat(frm, "renewable-percent"))

electricityEmissions(factors, frm) ==
    Mul(Mul(Mul(electricity(frm), factors.energy.electricity),
            Sub(R(1, 1), Div(renewablePercent(frm), R(100, 1)))), R(12, 1))

gasCo2e(factors, frm) == Mul(Mul(gas(frm), factors.energy.gas), R(12, 1))

\* Food
meatMeals(frm)        == safeParseFloat(frm, "meat-meals")
dairyProducts(frm)    == safeParseFloat(frm, "dairy-products")
localFoodPercent(frm) == ClampPercent(safeParseFloat(frm, "local-food"))

\* variant: neither the percentage nor the reduction is bounded
meatReductionUnbounded(frm) ==
    Sub(R(1, 1), Mul(Div(safeParseFloat(frm, "local-food"), R(100, 1)), R(2, 10)))

meatReduction(frm) ==
    MathMax(R(8, 10),
            Sub(R(1, 1), Mul(Div(localFoodPercent(frm), R(100, 1)), R(2, 10))))

foodMeatCo2e(factors, frm) ==
    Mul(Mul(Mul(meatMeals(frm), factors.food.meatMeal), R(52, 1)), meatReduction(frm))

foodDairyCo2e(factors, frm) ==
    Mul(Mul(dairyProducts(frm), factors.food.dairyServing), R(52, 1))

\* Waste
wasteBags(frm)        == safeParseFloat(frm, "waste-bags")
recyclingPercent(frm) == ClampPercent(safeParseFloat(frm, "recycling-percent"))

wasteEmissions(factors, frm) ==
    Mul(Mul(wasteBags(frm), factors.waste.wasteBag), R(52, 1))

recyclingOffset(factors, frm) ==
    Mul(Mul(wasteEmissions(factors, frm), Div(recyclingPercent(frm), R(100, 1))),
        MathAbs(factors.waste.recyclingOffset))

\* variant: the net waste is floored at 0
wasteCo2eFloored(factors, frm) ==
    MathMax(Zero, Sub(wasteEmissions(factors, frm), recyclingOffset(factors, frm)))

wasteCo2e(factors, frm) ==
    Sub(wasteEmissions(factors, frm), recyclingOffset(factors, frm))

\* Shopping
shoppingSpend(frm) == safeParseFloat(frm, "shopping-spend")
electronics(frm)   == safeParseFloat(frm, "electronics")

shoppingCo2e(factors, frm) ==
    Mul(Mul(shoppingSpend(frm), factors.shopping.general), R(12, 1))

electronicsCo2e(factors, frm) ==
    Mul(electronics(frm), factors.shopping.electronics)

\* the running total in kg, term by term in the order of the += statements
totalCo2e(factors, frm) ==
    Add(Add(Add(Add(Add(Add(Add(Add(Add(Add(Zero,
        transportCarCo2e(factors, frm)),
        transportFlightsCo2e(factors, frm)),
        transportPublicCo2e(factors, frm)),
        electricityEmissions(factors, frm)),
        gasCo2e(factors, frm)),
        foodMeatCo2e(factors, frm)),
        foodDairyCo2e(factors, frm)),
        wasteCo2e(factors, frm)),
        shoppingCo2e(factors, frm)),
        electronicsCo2e(factors, frm))

\* Convert to tonnes
totalTonnes(cfg, frm) ==
    Mul(totalCo2e(cfg.emissionFactors, frm), cfg.conversions.kgToTonnes)

\* variant: the shopping category leaves out the electronics
breakdownWithoutElectronics(factors, frm) ==
    [transport |-> Add(Add(transportCarCo2e(factors, frm),
                           transportFlightsCo2e(factors, frm)),
                       transportPublicCo2e(factors, frm)),
     energy    |-> Add(electricityEmissions(factors, frm), gasCo2e(factors, frm)),
     food      |-> Add(foodMeatCo2e(factors, frm), foodDairyCo2e(factors, frm)),
     waste     |-> wasteCo2e(factors, frm),
     shopping  |-> shoppingCo2e(factors, frm)]

\* the breakdown stored with the calculation
breakdown(factors, frm) ==
    [transport |-> Add(Add(transportCarCo2e(factors, frm),
                           transportFlightsCo2e(factors, frm)),
                       transportPublicCo2e(factors, frm)),
     energy    |-> Add(electricityEmissions(factors, frm), gasCo2e(factors, frm)),
     food      |-> Add(foodMeatCo2e(factors, frm), foodDairyCo2e(factors, frm)),
     waste     |-> wasteCo2e(factors, frm),
     shopping  |-> Add(shoppingCo2e(factors, frm), electronicsCo2e(factors, frm))]

\* variant: the result is filed under the category of the first tab
CalculationByTab(cfg, frm, time) ==
    [co2e      |-> totalTonnes(cfg, frm),
     category  |-> "transport",
     timestamp |-> time,
     breakdown |-> breakdown(cfg.emissionFactors, frm)]

\* the value assigned to appState.currentCalculation on the success path
Calculation(cfg, frm, time) ==
    [co2e      |-> totalTonnes(cfg, frm),
     category  |-> "mixed",
     timestamp |-> time,
     breakdown |-> breakdown(cfg.emissionFactors, frm)]

\* the value assigned to appState.currentCalculation in the catch block
ErrorCalculation(time) == [co2e |-> Zero, category |-> "mixed", timestamp |-> time]

(***************************************************************************)
(* The log store and getPreviousCalculation                                *)
(***************************************************************************)
\* null
Null == [isNull |-> TRUE]

\* api.getCarbonLogs(): the stored entries, as a fresh array
getCarbonLogs(store) == store

\* api.saveCarbonLog(logData): the entry is appended to the store; the store
\* gives it an id
saveCarbonLog(store, logData) ==
    Append(store, [id        |-> "log-" \o ToString(Len(store) + 1),
                   category  |-> logData.category,
                   co2e      |-> logData.co2e,
                   value     |-> logData.value,
                   notes     |-> logData.notes,
                   timestamp |-> logData.timestamp])

\* new Date(a.timestamp || a.date || 0), counted in days
LogDate(a) ==
    IF "timestamp" \in DOMAIN a THEN a.timestamp
    ELSE IF "date" \in DOMAIN a THEN a.date
    ELSE 0

\* variant: the comparator the other way round
CompareLogsAscending(a, b) == LogDate(a) - LogDate(b)

\* the comparator of the sort: dateB - dateA
CompareLogs(a, b) == LogDate(b) - LogDate(a)

\* variant: e goes in front of the entries it compares equal to
RECURSIVE InsertSortedUnstable(_, _)
InsertSortedUnstable(s, e) ==
    IF s = <<>> THEN <<e>>
    ELSE IF CompareLogs(Head(s), e) < 0
    THEN <<Head(s)>> \o InsertSortedUnstable(Tail(s), e)
    ELSE <<e>> \o s

\* inserts e into the sorted sequence s behind every entry that does not
\* have to come after it (Array.prototype.sort is stable)
RECURSIVE InsertSorted(_, _)
InsertSorted(s, e) ==
    IF s = <<>> THEN <<e>>
    ELSE IF CompareLogs(Head(s), e) <= 0 THEN <<Head(s)>> \o InsertSorted(Tail(s), e)
    ELSE <<e>> \o s

\* logs.sort(comparator)
RECURSIVE SortLogs(_)
SortLogs(s) ==
    IF s = <<>> THEN <<>>
    ELSE InsertSorted(SortLogs(SubSeq(s, 1, Len(s) - 1)), s[Len(s)])

\* the array getPreviousCalculation() obtained from the store, as the call
\* leaves it: logs.sort sorts the array in place
LogsAfterCall(store) ==
    LET logs == getCarbonLogs(store)
    IN  IF Len(logs) = 0 THEN logs ELSE SortLogs(logs)

\* getPreviousCalculation(): the first entry of the sorted logs, or null
getPreviousCalculation(store) ==
    LET logs == getCarbonLogs(store)
    IN  IF Len(logs) = 0 THEN Null ELSE SortLogs(logs)[1]

(***************************************************************************)
(* Numbers as text                                                         *)
(***************************************************************************)
\* the character of the digit v
DigitChar(v) == CHOOSE c \in DigitChars : DigitVal(c) = v

\* the decimal digits of the natural number n
RECURSIVE DigitsOf(_)
DigitsOf(n) ==
    IF n < 10 THEN <<DigitChar(n)>>
    ELSE DigitsOf(n \div 10) \o <<DigitChar(n % 10)>>

\* the digits of r/d behind the point, 0 <= r < d, at most k of them
RECURSIVE FractionDigits(_, _, _)
FractionDigits(r, d, k) ==
    IF r = 0 \/ k = 0 THEN <<>>
    ELSE <<DigitChar((r * 10) \div d)>> \o FractionDigits((r * 10) % d, d, k - 1)

\* String(x): sign, integer digits and, when there is a fraction, the point
\* and the fraction digits (up to 17 of them)
NumberToString(x) ==
    IF x.nan THEN <<"N", "a", "N">>
    ELSE LET m == MathAbs(x)
         IN  (IF x.n < 0 THEN <<"-">> ELSE <<>>)
             \o DigitsOf(m.n \div m.d)
             \o (IF m.n % m.d = 0 THEN <<>>
                 ELSE <<".">> \o FractionDigits(m.n % m.d, m.d, 17))

\* a number used as a condition: neither 0 nor NaN
Truthy(x) == ~x.nan /\ x.n # 0

\* previousCalculation && previousCalculation.co2e
HasPrevious(previousCalculation) ==
    previousCalculation # Null /\ Truthy(previousCalculation.co2e)

\* variant: parseInt in the place of parseFloat
previousValueTruncated(previousCalculation) ==
    LET parsed == ParseFloat(NumberToString(previousCalculation.co2e))
    IN  IF parsed.nan THEN Zero
        ELSE IF parsed.n < 0 THEN R(-((-parsed.n) \div parsed.d), 1)
        ELSE R(parsed.n \div parsed.d, 1)

\* parseFloat(previousCalculation.co2e) || 0
previousValue(previousCalculation) ==
    LET parsed == ParseFloat(NumberToString(previousCalculation.co2e))
    IN  IF Truthy(parsed) THEN parsed ELSE Zero

(***************************************************************************)
(* displayCalculationResult                                                *)
(***************************************************************************)
RECURSIVE Pow10(_)
Pow10(k) == IF k = 0 THEN 1 ELSE 10 * Pow10(k - 1)

\* x.toFixed(k): the magnitude rounded to k decimals, halves upwards, as the
\* integer number of units of 10^-k, with the sign printed in front
toFixed(x, k) ==
    IF x.nan THEN [nan |-> TRUE, neg |-> FALSE, units |-> 0]
    ELSE LET m == MathAbs(x)
         IN  [nan   |-> FALSE,
              neg   |-> x.n < 0,
              units |-> (2 * m.n * Pow10(k) + m.d) \div (2 * m.d)]

NoText == [base |-> "", comparison |-> "", amount |-> toFixed(Zero, 2),
           percent |-> toFixed(Zero, 1)]

\* variant: the thresholds belong to the lower text
BaseDescriptionInclusive(displayValue) ==
    IF Le(displayValue, R(4, 1)) THEN "below the global average"
    ELSE IF Le(displayValue, R(8, 1)) THEN "close to the global average"
    ELSE "above average"

\* the base sentence of the description of a value other than 0
BaseDescription(displayValue) ==
    IF Lt(displayValue, R(4, 1)) THEN "below the global average"
    ELSE IF Lt(displayValue, R(8, 1)) THEN "close to the global average"
    ELSE "above average"

\* the description text: its base sentence and its comparison sentence
Description(displayValue, previousCalculation) ==
    LET base == BaseDescription(displayValue)
        hasPrevious   == HasPrevious(previousCalculation)
        difference    == Sub(displayValue, previousValue(previousCalculation))
        percentChange == IF Gt(previousValue(previousCalculation), Zero)
                         THEN Mul(Div(difference, previousValue(previousCalculation)),
                                  R(100, 1))
                         ELSE Zero
    IN  IF displayValue = Zero
        THEN [NoText EXCEPT !.base = "Enter values in any category"]
        ELSE IF ~hasPrevious THEN [NoText EXCEPT !.base = base]
        ELSE IF Gt(MathAbs(difference), R(1, 100))
        THEN IF Lt(difference, Zero)
             THEN [base |-> base, comparison |-> "less",
                   amount  |-> toFixed(MathAbs(difference), 2),
                   percent |-> toFixed(MathAbs(percentChange), 1)]
             ELSE [base |-> base, comparison |-> "more",
                   amount  |-> toFixed(difference, 2),
                   percent |-> toFixed(percentChange, 1)]
        ELSE [NoText EXCEPT !.base = base,
                            !.comparison = "matches your previous calculation"]

\* isNaN(tonnes) || tonnes < 0 ? 0 : tonnes
DisplayValue(tonnes) == IF IsNaN(tonnes) \/ Lt(tonnes, Zero) THEN Zero ELSE tonnes

\* the result panel after displayCalculationResult(tonnes, previousCalculation);
\* without the panel or its value element the call only raises an alert
displayCalculationResult(old, els, tonnes, previousCalculation) ==
    IF ~els.resultDiv \/ ~els.resultValue THEN old
    ELSE [visible     |-> TRUE,
          hasValue    |-> TRUE,
          resultValue |-> toFixed(DisplayValue(tonnes), 2),
          resultDescription |->
              IF els.resultDescription
              THEN Description(DisplayValue(tonnes), previousCalculation)
              ELSE old.resultDescription]

\* the alert displayCalculationResult raises instead
DisplayAlert(els) ==
    IF ~els.resultDiv \/ ~els.resultValue THEN "Your annual carbon footprint is" ELSE "none"

(***************************************************************************)
(* saveCalculation                                                         *)
(***************************************************************************)
\* the notes of a saved entry: the footprint with two decimals and, behind
\* it, the remark on the change from the previous entry
NotesWithoutRemark(calculation) ==
    [footprint |-> toFixed(calculation.co2e, 2), remark |-> "none",
     amount |-> toFixed(Zero, 2)]

Notes(calculation, previousCalculation) ==
    LET difference == Sub(calculation.co2e, previousValue(previousCalculation))
    IN  IF ~HasPrevious(previousCalculation)
        THEN NotesWithoutRemark(calculation)
        ELSE IF Gt(MathAbs(difference), R(1, 100))
        THEN IF Lt(difference, Zero)
             THEN [NotesWithoutRemark(calculation) EXCEPT
                      !.remark = "reduction from previous",
                      !.amount = toFixed(MathAbs(difference), 2)]
             ELSE [NotesWithoutRemark(calculation) EXCEPT
                      !.remark = "increase from previous",
                      !.amount = toFixed(difference, 2)]
        ELSE NotesWithoutRemark(calculation)

\* variant: the entry is stamped with the time of saving
logDataStampedAtSave(calculation, notes, time) ==
    [category  |-> calculation.category,
     co2e      |-> calculation.co2e,
     value     |-> calculation.co2e,
     notes     |-> notes,
     timestamp |-> time]

\* the record handed to the log store; category and timestamp are texts
\* that are never empty, so that the || alternatives only serve a
\* calculation without these fields
logData(calculation, notes, time) ==
    [category  |-> IF "category" \in DOMAIN calculation
                   THEN calculation.category ELSE "mixed",
     co2e      |-> calculation.co2e,
     value     |-> calculation.co2e,
     notes     |-> notes,
     timestamp |-> IF "timestamp" \in DOMAIN calculation
                   THEN calculation.timestamp ELSE time]

(***************************************************************************)
(* Bounds and input sets                                                   *)
(***************************************************************************)
\* at most this many fields of a form hold a number
MaxFilled == 2

\* the clock stops here (days)
MaxNow == 2

EmptyText == <<>>

\* texts that are not numbers
JunkTexts == {EmptyText, <<"a", "b", "c">>, <<" ">>}

\* numbers typed into a quantity field: -0.5, 2.5, 100
QuantityTexts == {<<"-", "0", ".", "5">>, <<"2", ".", "5">>, <<"1", "0", "0">>}

\* numbers typed into a percent field: -5, 50, 100, 150
PercentTexts == {<<"-", "5">>, <<"5", "0">>, <<"1", "0", "0">>, <<"1", "5", "0">>}

TextsOf(f) == IF f \in PercentFields THEN PercentTexts ELSE QuantityTexts

\* every field present and empty
BlankForm == [f \in Fields |-> Element(EmptyText)]

\* the form b with the fields of the set S filled in, in every possible way
RECURSIVE Fill(_, _)
Fill(b, S) ==
    IF S = {} THEN {b}
    ELSE LET f == CHOOSE x \in S : TRUE
         IN  {[g EXCEPT ![f] = Element(t)] : g \in Fill(b, S \ {f}), t \in TextsOf(f)}

\* blank forms with numbers in at most MaxFilled fields
SparseForms ==
    UNION {Fill(BlankForm, S) : S \in {T \in SUBSET Fields : Cardinality(T) <= MaxFilled}}

JunkElements == {NoElement} \cup {Element(t) : t \in JunkTexts}

\* forms without any number: one kind of junk in the fields of a category,
\* another kind everywhere else
JunkForms ==
    {[f \in Fields |-> IF f \in S THEN a ELSE b] :
        a \in JunkElements, b \in JunkElements,
        S \in {TransportFields, EnergyFields, FoodFields, WasteFields, ShoppingFields}}

\* a junk form with a number in one field
JunkFormsWithNumber ==
    {[j EXCEPT ![g] = Element(t)] :
        j \in JunkForms, g \in {"car-miles", "electricity", "recycling-percent"},
        t \in {<<"-", "5">>, <<"1", "5", "0">>}}

\* carMiles = 100, electricity = 300, renewablePercent = 50
ExampleForm ==
    [BlankForm EXCEPT !["car-miles"]         = Element(<<"1", "0", "0">>),
                      !["electricity"]       = Element(<<"3", "0", "0">>),
                      !["renewable-percent"] = Element(<<"5", "0">>)]

\* wasteBags = 1, recyclingPercent = 100
WasteExampleForm ==
    [BlankForm EXCEPT !["waste-bags"]        = Element(<<"1">>),
                      !["recycling-percent"] = Element(<<"1", "0", "0">>)]

\* electronics = 100 and electronics = 200: 5 and 10 tonnes with the fallback table
LargeForms ==
    {[BlankForm EXCEPT !["electronics"] = Element(t)] :
        t \in {<<"1", "0", "0">>, <<"2", "0", "0">>}}

\* every field holds 0
ZeroForm == [f \in Fields |-> Element(<<"0">>)]

\* no transport elements on the page and text that is not a number elsewhere,
\* except for 100 in the electricity field
PartialForm ==
    [f \in Fields |-> IF f \in TransportFields THEN NoElement
                      ELSE IF f = "electricity" THEN Element(<<"1", "0", "0">>)
                      ELSE Element(<<"a", "b", "c">>)]

\* electronics = t
Electronics(t) == [BlankForm EXCEPT !["electronics"] = Element(t)]

\* forms for 0, 4, 4.01 and 5 tonnes with the fallback table, and the waste
\* example, which comes to less than 0
HistoryForms ==
    {ZeroForm, WasteExampleForm,
     Electronics(<<"8", "0">>), Electronics(<<"8", "0", ".", "2">>),
     Electronics(<<"1", "0", "0">>)}

\* the fallback table and a table without the shopping group
HistoryConfigs == {UndefinedConfig, MissingGroupConfig("shopping")}

\* the calculations of the history forms with the fallback table, worked out
\* once
HistoryCalculations ==
    [cfg \in {FallbackConfig}, frm \in HistoryForms |-> Calculation(cfg, frm, 0)]

\* Calculation(cfg, frm, time), looked up where it is worked out already;
\* a calculation does not read app.demoMode
CalculationOf(cfg, frm, time) ==
    IF <<[cfg EXCEPT !.demoMode = TRUE], frm>> \in DOMAIN HistoryCalculations
    THEN [HistoryCalculations[[cfg EXCEPT !.demoMode = TRUE], frm]
             EXCEPT !.timestamp = time]
    ELSE Calculation(cfg, frm, time)

\* electronics = 80 and electronics = 160: 4 and 8 tonnes with the fallback
\* table
ThresholdForms == {Electronics(<<"8", "0">>), Electronics(<<"1", "6", "0">>)}

FewForms ==
    {BlankForm, ZeroForm, ExampleForm, WasteExampleForm, PartialForm}
        \cup LargeForms \cup ThresholdForms

Forms == SparseForms \cup JunkForms \cup JunkFormsWithNumber \cup FewForms

\* the entries loadDemoData stores, written at the time at
DemoLogs(at) ==
    << [id |-> "demo-1", category |-> "transport", co2e |-> R(25, 10),
        timestamp |-> at - 30],
       [id |-> "demo-2", category |-> "energy", co2e |-> R(18, 10),
        timestamp |-> at - 20],
       [id |-> "demo-3", category |-> "food", co2e |-> R(12, 10),
        timestamp |-> at - 10] >>

AllElements == [resultDiv |-> TRUE, resultValue |-> TRUE, resultDescription |-> TRUE]

ElementChoices ==
    {AllElements,
     [AllElements EXCEPT !.resultDescription = FALSE],
     [AllElements EXCEPT !.resultValue = FALSE]}

(***************************************************************************)
(* State                                                                   *)
(***************************************************************************)
VARIABLES
    CONFIG,      \* the CONFIG global
    form,        \* the input elements of the calculator, by id
    elements,    \* which elements of the result panel the page has
    carbonLogs,  \* the log store
    now,         \* the clock, in days
    appState,    \* the global app state
    panel,       \* the result panel
    out,         \* the last call of calculateFootprint: what it read and did
    logs,        \* the array the last call of getPreviousCalculation obtained
    saveBtn,     \* the save button
    saved,       \* the last call of saveCalculation: what it did
    api,         \* the api object: its user and the profile request under way
    account,     \* the last call of a handler of the account or of the export
    exportBtn    \* the export button

vars == <<CONFIG, form, elements, carbonLogs, now, appState, panel, out, logs,
          saveBtn, saved, api, account, exportBtn>>

\* what the calculator and the save button leave alone
accountVars == <<api, account, exportBtn>>

HiddenPanel ==
    [visible |-> FALSE, hasValue |-> FALSE, resultValue |-> toFixed(Zero, 2),
     resultDescription |-> NoText]

NoCall == [called |-> FALSE, config |-> FallbackConfig, input |-> BlankForm,
           ret |-> FALSE, path |-> "none", storeReads |-> 0, previous |-> Null,
           alert |-> "none"]

\* the global app state when the script has loaded
InitialAppStateWithCalculation ==
    [currentCalculation |-> ErrorCalculation(0), userData |-> Null, isPremium |-> FALSE]

InitialAppState ==
    [currentCalculation |-> Null, userData |-> Null, isPremium |-> FALSE]

IdleSaveBtn == [disabled |-> FALSE, textContent |-> "Save to Dashboard"]

NoSave == [called |-> FALSE, stored |-> FALSE, alert |-> "none"]

\* nobody is logged in and initializeApp has finished
NoSession == [user |-> Null, loading |-> FALSE, profile |-> Null]

\* no handler of the account has run; afterLogout tells that a logout has
\* succeeded and neither a login of a premium user nor a subscription-updated
\* event with isPremium true has followed it
NoHandler == [handler |-> "none", ok |-> FALSE, result |-> Null,
              afterLogout |-> FALSE]

EnabledBtn == [disabled |-> FALSE]

Init ==
    /\ \/ /\ CONFIG \in {FallbackConfig, RegionalConfig}
          /\ form \in Forms
          /\ elements = AllElements
          /\ carbonLogs = <<>>
          /\ now = MaxNow
       \/ /\ CONFIG \in Configs
          /\ form \in FewForms
          /\ elements \in ElementChoices
          /\ carbonLogs \in {<<>>, DemoLogs(0)}
          /\ now = 0
    /\ appState = InitialAppState
    /\ panel = HiddenPanel
    /\ out = NoCall
    /\ logs = <<>>
    /\ saveBtn = IdleSaveBtn
    /\ saved = NoSave
    /\ api = NoSession
    /\ account = NoHandler
    /\ exportBtn = EnabledBtn

(***************************************************************************)
(* Actions                                                                 *)
(***************************************************************************)
\* variant: only the configuration object itself is tested
ConfigMissingNullOnly(cfg) == cfg.isNull

\* if (!CONFIG_TO_USE || !CONFIG_TO_USE.emissionFactors)
ConfigMissing(cfg) == cfg.isNull \/ ~cfg.hasEmissionFactors

\* what a call of calculateFootprint reports
Call(frm, cfg, ret, path, storeReads, previous, alert) ==
    [called |-> TRUE, config |-> cfg, input |-> frm, ret |-> ret, path |-> path,
     storeReads |-> storeReads, previous |-> previous, alert |-> alert]

\* variant: the calculate button takes a click at any time
ClockMovedOrNot(state, time) == TRUE

\* the calculate button is disabled from the click until calculateFootprint
\* has run, 100 ms later, so a calculation never carries the timestamp of the
\* one before it: the clock has moved since the current calculation was made
ClockMoved(state, time) ==
    IF state.currentCalculation = Null
    THEN TRUE
    ELSE state.currentCalculation.timestamp < time

\* calculateFootprint() with the form holding frm
Calculate(frm) ==
    /\ ClockMoved(appState, now)
    /\ UNCHANGED accountVars
    /\ IF ConfigMissing(getConfig(CONFIG))
       THEN /\ out' = Call(frm, getConfig(CONFIG), FALSE, "config", 0, Null,
                           "Configuration not loaded")
            /\ UNCHANGED <<CONFIG, elements, carbonLogs, now, appState, panel,
                           logs, saveBtn, saved>>
       ELSE IF ~Throws(getConfig(CONFIG))
       THEN /\ appState' = [appState EXCEPT !.currentCalculation =
                               CalculationOf(getConfig(CONFIG), frm, now)]
            /\ panel' = displayCalculationResult(panel, elements,
                           CalculationOf(getConfig(CONFIG), frm, now).co2e,
                           getPreviousCalculation(carbonLogs))
            /\ out' = Call(frm, getConfig(CONFIG), TRUE, "success", 1,
                           getPreviousCalculation(carbonLogs), DisplayAlert(elements))
            /\ logs' = LogsAfterCall(carbonLogs)
            /\ UNCHANGED <<CONFIG, elements, carbonLogs, now, saveBtn, saved>>
       ELSE /\ appState' = [appState EXCEPT !.currentCalculation = ErrorCalculation(now)]
            /\ panel' = displayCalculationResult(panel, elements, Zero, Null)
            /\ out' = Call(frm, getConfig(CONFIG), FALSE, "catch", 0, Null,
                           DisplayAlert(elements))
            /\ UNCHANGED <<CONFIG, elements, carbonLogs, now, logs, saveBtn, saved>>

\* calculateFootprint(), run by the click handler of the calculate button
CalculateFootprint == Calculate(form) /\ UNCHANGED form

\* config.js finishes loading after app.js and defines the CONFIG global
LoadConfig ==
    /\ ~CONFIG.defined
    /\ CONFIG' \in Configs \ {UndefinedConfig}
    /\ UNCHANGED <<form, elements, carbonLogs, now, appState, panel, out, logs,
                   saveBtn, saved>>
    /\ UNCHANGED accountVars

\* a day passes
Tick ==
    /\ now < MaxNow
    /\ now' = now + 1
    /\ UNCHANGED <<CONFIG, form, elements, carbonLogs, appState, panel, out, logs,
                   saveBtn, saved>>
    /\ UNCHANGED accountVars

Next == CalculateFootprint \/ LoadConfig \/ Tick

Spec == Init /\ [][Next]_vars

(***************************************************************************)
(* Saving and the history                                                  *)
(***************************************************************************)
\* at most this many entries are saved
MaxSaves == 2

\* the entries of the store that saveCalculation made
SavedEntries(store) == {i \in 1..Len(store) : "notes" \in DOMAIN store[i]}

\* if (!appState.currentCalculation)
NothingToSave(state) == state.currentCalculation = Null

\* variant: the button stays as it was while saving
FailedSaveBtnStuck(btn) == [disabled |-> TRUE, textContent |-> "Saving..."]

\* the save button after the catch block: enabled, with its original text
FailedSaveBtn(btn) == [disabled |-> FALSE, textContent |-> btn.textContent]

\* what a call of saveCalculation reports
Save(stored, alert) == [called |-> TRUE, stored |-> stored, alert |-> alert]

\* saveCalculation(), run by a click on the save button, which a disabled
\* button does not receive; the store either takes the entry or fails
SaveCalculation ==
    /\ ~saveBtn.disabled
    /\ IF NothingToSave(appState)
       THEN /\ saved' = Save(FALSE, "No calculation to save")
            /\ UNCHANGED <<carbonLogs, logs, saveBtn>>
       ELSE /\ logs' = LogsAfterCall(carbonLogs)
            /\ \/ /\ Cardinality(SavedEntries(carbonLogs)) < MaxSaves
                  /\ carbonLogs' = saveCarbonLog(carbonLogs,
                        logData(appState.currentCalculation,
                                Notes(appState.currentCalculation,
                                      getPreviousCalculation(carbonLogs)),
                                now))
                  /\ saveBtn' = [disabled |-> TRUE, textContent |-> "Saved!"]
                  /\ saved' = Save(TRUE, "none")
               \/ /\ carbonLogs' = carbonLogs
                  /\ saveBtn' = FailedSaveBtn(saveBtn)
                  /\ saved' = Save(FALSE, "Error saving calculation")
    /\ UNCHANGED <<CONFIG, form, elements, now, appState, panel, out>>
    /\ UNCHANGED accountVars

\* two seconds after a save the button is as it was
ResetSaveBtn ==
    /\ saveBtn.disabled
    /\ saveBtn' = IdleSaveBtn
    /\ UNCHANGED <<CONFIG, form, elements, carbonLogs, now, appState, panel, out,
                   logs, saved>>
    /\ UNCHANGED accountVars

\* the user fills in the form and clicks the calculate button
FillInAndCalculate ==
    \E frm \in HistoryForms : form' = frm /\ Calculate(frm)

InitHistory ==
    /\ CONFIG \in HistoryConfigs
    /\ form \in HistoryForms
    /\ elements = AllElements
    /\ carbonLogs \in {<<>>, DemoLogs(0)}
    /\ now = 0
    /\ appState = InitialAppState
    /\ panel = HiddenPanel
    /\ out = NoCall
    /\ logs = <<>>
    /\ saveBtn = IdleSaveBtn
    /\ saved = NoSave
    /\ api = NoSession
    /\ account = NoHandler
    /\ exportBtn = EnabledBtn

NextHistory ==
    FillInAndCalculate \/ SaveCalculation \/ ResetSaveBtn \/ Tick

SpecHistory == InitHistory /\ [][NextHistory]_vars

(***************************************************************************)
(* The page load and the demo data                                         *)
(***************************************************************************)
\* a loaded CONFIG with the fallback's table and app.demoMode off
DemoOffConfig == [FallbackConfig EXCEPT !.demoMode = FALSE]

\* config && config.app && config.app.demoMode
DemoMode(cfg) == ~cfg.isNull /\ cfg.demoMode

\* variant: the demo entries are written whatever the store holds
loadDemoDataAlways(store, time) == DemoLogs(time)

\* loadDemoData(): the store afterwards
loadDemoData(store, time) ==
    IF Len(getCarbonLogs(store)) = 0 THEN DemoLogs(time) ELSE store

\* user.isPremium || false, also for event.detail
IsPremiumOrFalse(user) ==
    IF "isPremium" \in DOMAIN user THEN user.isPremium ELSE FALSE

\* appState.userData = user; appState.isPremium = user.isPremium || false
LoggedIn(state, user) ==
    [state EXCEPT !.userData = user, !.isPremium = IsPremiumOrFalse(user)]

\* updateUI(): exportBtn.disabled = !appState.isPremium && !getConfig().app.demoMode
updateUI(state, cfg) == [disabled |-> ~state.isPremium /\ ~cfg.demoMode]

\* api.getUserProfile(): the user of the session, null without one
getUserProfile(a) == a.user

\* what a call of a handler of the account reports
Handler(name, ok, result, afterLogout) ==
    [handler |-> name, ok |-> ok, result |-> result, afterLogout |-> afterLogout]

\* the page is loaded anew on a later day and initializeApp runs as far as
\* await loadUserData(): the script's state is as at the start, the handlers
\* are set up, api.getUserProfile() is under way for the user of the session
PageLoad ==
    /\ now < MaxNow
    /\ now' = now + 1
    /\ form' = BlankForm
    /\ appState' = InitialAppState
    /\ panel' = HiddenPanel
    /\ out' = NoCall
    /\ logs' = <<>>
    /\ saveBtn' = IdleSaveBtn
    /\ saved' = NoSave
    /\ exportBtn' = EnabledBtn
    /\ account' = [NoHandler EXCEPT !.afterLogout = account.afterLogout]
    /\ api' = [api EXCEPT !.loading = TRUE, !.profile = getUserProfile(api)]
    /\ UNCHANGED <<CONFIG, elements, carbonLogs>>

\* api.getUserProfile() settles and initializeApp runs to its end:
\* loadUserData takes the user, loadDemoData runs in demo mode, updateUI
ProfileLoaded ==
    /\ api.loading
    /\ appState' = IF api.profile = Null THEN appState
                   ELSE LoggedIn(appState, api.profile)
    /\ carbonLogs' = IF DemoMode(getConfig(CONFIG))
                     THEN loadDemoData(carbonLogs, now)
                     ELSE carbonLogs
    /\ exportBtn' = updateUI(appState', getConfig(CONFIG))
    /\ api' = [api EXCEPT !.loading = FALSE, !.profile = Null]
    /\ account' = Handler("profile", api.profile # Null, api.profile,
                          account.afterLogout)
    /\ UNCHANGED <<CONFIG, form, elements, now, panel, out, logs, saveBtn,
                   saved>>

\* the page as initializeApp finds it in a browser that has no entries yet
InitDemo ==
    /\ CONFIG \in {UndefinedConfig, DemoOffConfig}
    /\ form = BlankForm
    /\ elements = AllElements
    /\ carbonLogs = <<>>
    /\ now = 0
    /\ appState = InitialAppState
    /\ panel = HiddenPanel
    /\ out = NoCall
    /\ logs = <<>>
    /\ saveBtn = IdleSaveBtn
    /\ saved = NoSave
    /\ api = [NoSession EXCEPT !.loading = TRUE]
    /\ account = NoHandler
    /\ exportBtn = EnabledBtn

NextDemo ==
    \/ PageLoad
    \/ ProfileLoaded
    \/ FillInAndCalculate
    \/ SaveCalculation
    \/ ResetSaveBtn
    \/ Tick

SpecDemo == InitDemo /\ [][NextDemo]_vars

(***************************************************************************)
(* The account and the export                                              *)
(***************************************************************************)
\* the users the api knows: on the free plan, premium, and one whose record
\* has no isPremium
FreeUser    == [email |-> "free", isPremium |-> FALSE]
PremiumUser == [email |-> "premium", isPremium |-> TRUE]
PlainUser   == [email |-> "plain"]

Users == {FreeUser, PremiumUser, PlainUser}

\* what is typed into the forms of the login and the signup
Emails    == {"", "free", "premium", "plain", "nobody"}
Passwords == {"", "secret", "short"}
Names     == {"", "Ada"}

\* the detail of a subscription-updated event
Details == {[isPremium |-> TRUE], [isPremium |-> FALSE], [plan |-> "free"]}

\* api.login(email, password): the user of that email when the password is
\* the right one, null for a rejected promise
login(email, password) ==
    IF password = "secret" /\ \E user \in Users : user.email = email
    THEN CHOOSE user \in Users : user.email = email
    ELSE Null

\* api.signup(email, password, name): the users the new account may be
\* returned as; the api decides on its plan
signup(email, password, name) ==
    {[email |-> email], [email |-> email, isPremium |-> FALSE],
     [email |-> email, isPremium |-> TRUE]}

\* appState.userData = null; appState.isPremium = false
LoggedOut(state) == [state EXCEPT !.userData = Null, !.isPremium = FALSE]

\* the negation of !appState.isPremium && !getConfig().app.demoMode
ExportAllowed(state, cfg) == state.isPremium \/ cfg.demoMode

\* what the account handlers leave alone
calculatorVars ==
    <<CONFIG, form, elements, carbonLogs, now, panel, out, logs, saveBtn, saved>>

\* a handler that ends without having changed anything
Refused(name) ==
    /\ account' = Handler(name, FALSE, Null, account.afterLogout)
    /\ UNCHANGED <<api, appState, exportBtn>>

\* handleLogin(email, password), run by the submit of the login form
HandleLogin ==
    /\ \E email \in Emails : \E password \in Passwords :
          IF email = "" \/ password = "" THEN Refused("login")
          ELSE IF login(email, password) = Null THEN Refused("login")
          ELSE /\ api' = [api EXCEPT !.user = login(email, password)]
               /\ appState' = LoggedIn(appState, login(email, password))
               /\ exportBtn' = updateUI(appState', getConfig(CONFIG))
               /\ account' = Handler("login", TRUE, login(email, password),
                                     account.afterLogout
                                       /\ ~IsPremiumOrFalse(login(email, password)))
    /\ UNCHANGED calculatorVars

\* handleSignup(email, password, name), run by the submit of the signup form;
\* the api takes the account or rejects it
HandleSignup ==
    /\ \E email \in Emails : \E password \in Passwords : \E name \in Names :
          IF email = "" \/ name = "" \/ password = "" THEN Refused("signup")
          ELSE IF Len(password) < 6 THEN Refused("signup")
          ELSE \/ Refused("signup")
               \/ \E user \in signup(email, password, name) :
                     /\ api' = [api EXCEPT !.user = user]
                     /\ appState' = LoggedIn(appState, user)
                     /\ exportBtn' = updateUI(appState', getConfig(CONFIG))
                     /\ account' = Handler("signup", TRUE, user,
                                           account.afterLogout)
    /\ UNCHANGED calculatorVars

\* handleLogout(), run by the logout button, which updateAuthUI sets up when
\* api.user is there; the api ends the session or rejects
HandleLogout ==
    /\ api.user # Null
    /\ \/ /\ api' = [api EXCEPT !.user = Null]
          /\ appState' = LoggedOut(appState)
          /\ exportBtn' = updateUI(appState', getConfig(CONFIG))
          /\ account' = Handler("logout", TRUE, Null, TRUE)
       \/ Refused("logout")
    /\ UNCHANGED calculatorVars

\* the listener of the subscription-updated event
SubscriptionUpdated ==
    /\ \E detail \in Details :
          /\ appState' = [appState EXCEPT !.isPremium = IsPremiumOrFalse(detail)]
          /\ exportBtn' = updateUI(appState', getConfig(CONFIG))
          /\ account' = Handler("subscription", TRUE, detail,
                                account.afterLogout /\ ~IsPremiumOrFalse(detail))
    /\ UNCHANGED api
    /\ UNCHANGED calculatorVars

\* handleExport(), run by a click on the export button, which a disabled
\* button does not receive; ok tells that api.exportToCSV() was called
HandleExport ==
    /\ ~exportBtn.disabled
    /\ account' = Handler("export", ExportAllowed(appState, getConfig(CONFIG)),
                          Null, account.afterLogout)
    /\ UNCHANGED <<api, appState, exportBtn>>
    /\ UNCHANGED calculatorVars

\* the page as initializeApp finds it, with or without a session; CONFIG is
\* an object with its app section
InitAccount ==
    /\ CONFIG \in {UndefinedConfig, DemoOffConfig}
    /\ form = BlankForm
    /\ elements = AllElements
    /\ carbonLogs = <<>>
    /\ now = 0
    /\ appState = InitialAppState
    /\ panel = HiddenPanel
    /\ out = NoCall
    /\ logs = <<>>
    /\ saveBtn = IdleSaveBtn
    /\ saved = NoSave
    /\ api \in {[user |-> user, loading |-> TRUE, profile |-> user] :
                    user \in Users \cup {Null}}
    /\ account = NoHandler
    /\ exportBtn = EnabledBtn

NextAccount ==
    \/ PageLoad
    \/ ProfileLoaded
    \/ HandleLogin
    \/ HandleSignup
    \/ HandleLogout
    \/ SubscriptionUpdated
    \/ HandleExport

SpecAccount == InitAccount /\ [][NextAccount]_vars

(***************************************************************************)
(* Properties                                                              *)
(***************************************************************************)
currentCalculation == appState.currentCalculation

\* the last call of calculateFootprint completed on the success path
Succeeded == out.called /\ out.path = "success"

\* the form the last call read
lastInput == out.input

\* the factor table the last call used
lastFactors == out.config.emissionFactors

\* the form the last call read, with the text t in the field f
WithText(f, t) == [lastInput EXCEPT ![f] = Element(t)]

\* the calculation of the form frm under the configuration of the last call
SameAs(frm) ==
    /\ currentCalculation.co2e = totalTonnes(out.config, frm)
    /\ currentCalculation.breakdown = breakdown(lastFactors, frm)

IsNegative(f) == lastInput[f].present /\ Lt(ParseFloat(lastInput[f].value), Zero)

\* C1: a negative number in any field gives the total and the breakdown
\* that 0 in that field gives, the other fields being the same
C1_NegativeIsZero ==
    Succeeded =>
        \A f \in Fields : IsNegative(f) => SameAs(WithText(f, <<"0">>))

\* a calculation with a negative quantity next to a field that counts
C1_Witness ==
    /\ Succeeded
    /\ \E f \in Fields \ PercentFields : IsNegative(f)
    /\ currentCalculation.co2e # Zero

Above100(f) == lastInput[f].present /\ Gt(ParseFloat(lastInput[f].value), R(100, 1))

\* C2: in a percent field a number above 100 gives the result of 100 and a
\* number below 0 the result of 0
C2_PercentClamped ==
    Succeeded =>
        \A f \in PercentFields :
            /\ Above100(f)   => SameAs(WithText(f, <<"1", "0", "0">>))
            /\ IsNegative(f) => SameAs(WithText(f, <<"0">>))

\* 150 percent recycling of waste that is there
C2_Witness ==
    /\ Succeeded
    /\ Above100("recycling-percent")
    /\ wasteBags(lastInput) # Zero

\* C3: the stored total is the sum of the five stored categories times
\* conversions.kgToTonnes
C3_TotalIsSumOfBreakdown ==
    Succeeded =>
        currentCalculation.co2e =
            Mul(Add(Add(Add(Add(currentCalculation.breakdown.transport,
                                currentCalculation.breakdown.energy),
                            currentCalculation.breakdown.food),
                        currentCalculation.breakdown.waste),
                    currentCalculation.breakdown.shopping),
                out.config.conversions.kgToTonnes)

\* a calculation with electronics bought, in short tons
C3_Witness ==
    /\ Succeeded
    /\ currentCalculation.breakdown.shopping # Zero
    /\ electronics(lastInput) # Zero
    /\ out.config.conversions.kgToTonnes # R(1, 1000)

\* the product a * b * c
Times(a, b, c) == Mul(Mul(a, b), c)

\* C4: transport = carMiles*car*12 + flights*1000*flightShort +
\* publicTrips*publicTransport*12, energy = electricity*electricityFactor*
\* (1 - renewablePercent/100)*12 + gas*gasFactor*12 and shopping =
\* shoppingSpend*general*12 + electronics*electronicsFactor, flights and
\* electronics not multiplied by 12; carMiles = 100, electricity = 300 and
\* renewablePercent = 50 give 492 kg, 419.4 kg and 0.9114 tonnes with the
\* fallback factors
C4_CategoryFormulas ==
    Succeeded =>
        /\ currentCalculation.breakdown.transport =
              Add(Add(Times(carMiles(lastInput), lastFactors.transport.car, R(12, 1)),
                      Times(flights(lastInput), R(1000, 1), lastFactors.transport.flightShort)),
                  Times(publicTransport(lastInput), lastFactors.transport.publicTransport,
                        R(12, 1)))
        /\ currentCalculation.breakdown.energy =
              Add(Mul(Times(electricity(lastInput), lastFactors.energy.electricity,
                            Sub(R(1, 1), Div(renewablePercent(lastInput), R(100, 1)))),
                      R(12, 1)),
                  Times(gas(lastInput), lastFactors.energy.gas, R(12, 1)))
        /\ currentCalculation.breakdown.shopping =
              Add(Times(shoppingSpend(lastInput), lastFactors.shopping.general, R(12, 1)),
                  Mul(electronics(lastInput), lastFactors.shopping.electronics))
        /\ (lastInput = ExampleForm /\ out.config = FallbackConfig) =>
              /\ currentCalculation.breakdown.transport = R(492, 1)
              /\ currentCalculation.breakdown.energy = R(4194, 10)
              /\ currentCalculation.co2e = R(9114, 10000)

\* the example of the specification, calculated with the fallback factors
C4_Witness ==
    /\ Succeeded
    /\ lastInput = ExampleForm
    /\ out.config = FallbackConfig
    /\ currentCalculation.co2e = R(9114, 10000)

\* C5: waste = wasteBags*wasteBag*52 minus that amount times
\* recyclingPercent/100 times |recyclingOffset|, stored without a floor:
\* one bag and 100 percent recycling give -26 kg and, alone, -0.026 tonnes
\* with the fallback factors
C5_WasteUnfloored ==
    Succeeded =>
        /\ currentCalculation.breakdown.waste =
              Sub(Times(wasteBags(lastInput), lastFactors.waste.wasteBag, R(52, 1)),
                  Times(Times(wasteBags(lastInput), lastFactors.waste.wasteBag, R(52, 1)),
                        Div(recyclingPercent(lastInput), R(100, 1)),
                        MathAbs(lastFactors.waste.recyclingOffset)))
        /\ (lastInput = WasteExampleForm /\ out.config = FallbackConfig) =>
              /\ currentCalculation.breakdown.waste = R(-26, 1)
              /\ currentCalculation.co2e = R(-26, 1000)

\* the waste example of the specification, calculated with the fallback factors
C5_Witness ==
    /\ Succeeded
    /\ lastInput = WasteExampleForm
    /\ out.config = FallbackConfig
    /\ Lt(currentCalculation.co2e, Zero)

NonNegativeFactors(t) ==
    /\ \A x \in {t.transport.car, t.transport.flightShort, t.transport.publicTransport,
                 t.energy.electricity, t.energy.gas, t.food.meatMeal,
                 t.food.dairyServing, t.waste.wasteBag, t.shopping.general,
                 t.shopping.electronics} : Le(Zero, x)

\* C6: with |recyclingOffset| <= 1 and the other factors non-negative every
\* category and the total are >= 0; a category is negative only if it is
\* waste and the recycling offset exceeds the emitted waste
C6_NegativeOnlyByRecycling ==
    (Succeeded /\ NonNegativeFactors(lastFactors)
               /\ Le(Zero, out.config.conversions.kgToTonnes)) =>
        /\ \A c \in FactorGroups \ {"waste"} : Le(Zero, currentCalculation.breakdown[c])
        /\ Lt(currentCalculation.breakdown.waste, Zero) =>
              Gt(recyclingOffset(lastFactors, lastInput), wasteEmissions(lastFactors, lastInput))
        /\ Le(MathAbs(lastFactors.waste.recyclingOffset), R(1, 1)) =>
              /\ Le(Zero, currentCalculation.breakdown.waste)
              /\ Le(Zero, currentCalculation.co2e)

\* all the waste recycled with a recycling offset of exactly 1
C6_Witness ==
    /\ Succeeded
    /\ MathAbs(lastFactors.waste.recyclingOffset) = R(1, 1)
    /\ Gt(wasteBags(lastInput), Zero)
    /\ Le(R(100, 1), ParseFloat(lastInput["recycling-percent"].value))
    /\ currentCalculation.breakdown.waste = Zero

\* C7: the meat reduction factor is within [0.8, 1]; the meat emissions are
\* between 80% and 100% of those with local-food = 0, and the dairy
\* emissions are those with local-food = 0
C7_MeatReductionBounded ==
    Succeeded =>
        /\ Le(R(8, 10), meatReduction(lastInput)) /\ Le(meatReduction(lastInput), R(1, 1))
        /\ Le(Mul(R(8, 10), foodMeatCo2e(lastFactors, WithText("local-food", <<"0">>))),
              foodMeatCo2e(lastFactors, lastInput))
        /\ Le(foodMeatCo2e(lastFactors, lastInput),
              foodMeatCo2e(lastFactors, WithText("local-food", <<"0">>)))
        /\ foodDairyCo2e(lastFactors, lastInput) =
              foodDairyCo2e(lastFactors, WithText("local-food", <<"0">>))
        /\ currentCalculation.breakdown.food =
              Add(foodMeatCo2e(lastFactors, lastInput), foodDairyCo2e(lastFactors, lastInput))

\* meat meals with 150 percent local food
C7_Witness ==
    /\ Succeeded
    /\ Gt(meatMeals(lastInput), Zero)
    /\ Above100("local-food")
    /\ currentCalculation.breakdown.food =
          Mul(R(8, 10), foodMeatCo2e(lastFactors, WithText("local-food", <<"0">>)))

ZeroOrEmpty(f) == ~lastInput[f].present \/ lastInput[f].value \in {EmptyText, <<"0">>}

\* C8: with every field 0 or empty the total and the five categories are
\* 0, whatever the factor table
C8_ZeroInputZeroResult ==
    (Succeeded /\ \A f \in Fields : ZeroOrEmpty(f)) =>
        /\ currentCalculation.co2e = Zero
        /\ \A c \in FactorGroups : currentCalculation.breakdown[c] = Zero

\* a calculation of the form with 0 in every field, with a loaded table
C8_Witness ==
    /\ Succeeded
    /\ lastInput = ZeroForm
    /\ out.config = RegionalConfig
    /\ currentCalculation.co2e = Zero

\* the field f is missing, or its text is not a number
NotNumeric(f) == ~lastInput[f].present \/ IsNaN(ParseFloat(lastInput[f].value))

\* the form the last call read, with 0 in place of what is not a number
ZeroForJunk == [f \in Fields |-> IF NotNumeric(f) THEN Element(<<"0">>) ELSE lastInput[f]]

\* C9: with a well-formed configuration a call returns true on the success
\* path and stores a calculation with a breakdown, whatever fields are
\* missing, empty or not numeric, and each such field counts as 0
C9_JunkNeverFails ==
    (out.called /\ WellFormed(out.config)) =>
        /\ out.ret
        /\ out.path = "success"
        /\ currentCalculation # Null
        /\ "breakdown" \in DOMAIN currentCalculation
        /\ SameAs(ZeroForJunk)

\* a calculation of a form with a missing element, a text that is not a
\* number and a number that counts
C9_Witness ==
    /\ out.called
    /\ WellFormed(out.config)
    /\ \E f \in Fields : ~lastInput[f].present
    /\ \E f \in Fields : lastInput[f].present /\ lastInput[f].value = <<"a", "b", "c">>
    /\ out.ret
    /\ currentCalculation.co2e # Zero

\* C10: a call under a configuration without emissionFactors returns false,
\* leaves appState and the result panel as they were and does not read the
\* log store
C10_NoFactorsNoComputation ==
    [][(CalculateFootprint /\ CONFIG.defined
            /\ (CONFIG.isNull \/ ~CONFIG.hasEmissionFactors)) =>
          /\ out'.ret = FALSE
          /\ out'.path = "config"
          /\ out'.storeReads = 0
          /\ appState' = appState
          /\ panel' = panel
          /\ carbonLogs' = carbonLogs]_vars

\* a call refused for want of emissionFactors after an earlier calculation
C10_Witness ==
    /\ out.called
    /\ out.path = "config"
    /\ ~out.ret
    /\ currentCalculation # Null
    /\ panel.visible

\* C11: a call under a configuration whose emissionFactors lack a group, or
\* that has no conversions, produces no result: nothing is stored in
\* appState.currentCalculation and nothing is shown in the result panel
C11_MalformedProducesNothing ==
    [][(CalculateFootprint /\ getConfig(CONFIG) \in MalformedConfigs) =>
          /\ appState' = appState
          /\ panel' = panel]_vars

\* C12: the current calculation, whichever path of calculateFootprint
\* assigned it, has the category "mixed", and so has every entry that
\* saveCalculation put into the store
C12_CategoryMixed ==
    /\ currentCalculation # Null => currentCalculation.category = "mixed"
    /\ \A i \in SavedEntries(carbonLogs) : carbonLogs[i].category = "mixed"

\* the result of a failed calculation was saved behind the demo entries,
\* which have other categories
C12_Witness ==
    /\ out.called /\ out.path = "catch"
    /\ saved.stored
    /\ SavedEntries(carbonLogs) # {}
    /\ \E i \in 1..Len(carbonLogs) : carbonLogs[i].category # "mixed"

\* the places of the store
Places == 1..Len(carbonLogs)

\* the latest timestamp of the store
LatestTimestamp ==
    CHOOSE t \in {carbonLogs[i].timestamp : i \in Places} :
        \A i \in Places : carbonLogs[i].timestamp <= t

\* C13: getPreviousCalculation returns null for an empty store and
\* otherwise an entry of the store whose timestamp no other entry exceeds
C13_MostRecent ==
    IF carbonLogs = <<>>
    THEN getPreviousCalculation(carbonLogs) = Null
    ELSE /\ \E i \in Places : carbonLogs[i] = getPreviousCalculation(carbonLogs)
         /\ getPreviousCalculation(carbonLogs).timestamp = LatestTimestamp

\* a call has read a store of several entries whose latest is not the first
C13_Witness ==
    /\ out.called /\ out.storeReads = 1
    /\ Len(carbonLogs) >= 2
    /\ logs # <<>>
    /\ logs[1] = getPreviousCalculation(carbonLogs)
    /\ carbonLogs[1].timestamp < LatestTimestamp

\* C14: of several entries with the latest timestamp getPreviousCalculation
\* returns the one that comes first in the store
C14_FirstSeenWins ==
    carbonLogs # <<>> =>
        \E i \in Places :
            /\ carbonLogs[i] = getPreviousCalculation(carbonLogs)
            /\ carbonLogs[i].timestamp = LatestTimestamp
            /\ \A j \in 1..(i - 1) : carbonLogs[j].timestamp < LatestTimestamp

\* a call has read a store in which two entries, saved for one calculation,
\* share the latest timestamp
C14_Witness ==
    /\ saved.called
    /\ logs # <<>>
    /\ logs[1] = getPreviousCalculation(carbonLogs)
    /\ \E i \in Places : \E j \in Places :
          /\ i < j
          /\ carbonLogs[i].timestamp = LatestTimestamp
          /\ carbonLogs[j].timestamp = LatestTimestamp
          /\ carbonLogs[i] # carbonLogs[j]

\* a click on the calculate button whose calculation succeeds with a result
\* above 0, which is then the value displayed
DisplaysResult ==
    /\ FillInAndCalculate
    /\ out'.path = "success"
    /\ Gt(appState'.currentCalculation.co2e, Zero)

\* C15: the description of a result other than 0 has no comparison sentence
\* exactly when the store holds no entry
C15_ComparisonIffPrevious ==
    [][DisplaysResult =>
          (panel'.resultDescription.comparison = "" <=> carbonLogs = <<>>)]_vars

\* the entry of the store with the latest timestamp, the first of them
MostRecent ==
    LET latest == LatestTimestamp
    IN  carbonLogs[CHOOSE i \in Places :
                      /\ carbonLogs[i].timestamp = latest
                      /\ \A j \in 1..(i - 1) : carbonLogs[j].timestamp # latest]

\* the difference of the footprint co2e from that of the entry previous
DeltaTonnes(co2e, previous) == Sub(co2e, previous.co2e)

\* that difference in percent of the entry previous
PercentChange(co2e, previous) ==
    IF Gt(previous.co2e, Zero)
    THEN Mul(Div(DeltaTonnes(co2e, previous), previous.co2e), R(100, 1))
    ELSE Zero

\* the description names the size of a change
NamesChange(description) == description.comparison \in {"less", "more"}

\* a click on the save button that puts an entry into the store
StoresEntry ==
    Len(carbonLogs') > Len(carbonLogs) /\ SaveCalculation /\ saved'.stored

\* the entry a save has put into the store
NewEntry == carbonLogs'[Len(carbonLogs')]

\* the description names the difference of co2e from the entry previous
\* and that difference in percent
DescribesChange(description, co2e, previous) ==
    /\ description.amount = toFixed(MathAbs(DeltaTonnes(co2e, previous)), 2)
    /\ description.percent = toFixed(MathAbs(PercentChange(co2e, previous)), 1)
    /\ description.comparison = "less" <=> Lt(DeltaTonnes(co2e, previous), Zero)

\* the notes name the difference of co2e from the entry previous
RemarksChange(notes, co2e, previous) ==
    /\ notes.amount = toFixed(MathAbs(DeltaTonnes(co2e, previous)), 2)
    /\ notes.remark = "reduction from previous" <=> Lt(DeltaTonnes(co2e, previous), Zero)

\* C16: a description that names a change names the size of the current
\* co2e minus the co2e of the most recent entry and that difference in
\* percent of the latter (0 unless it is above 0); a remark in the notes
\* of a saved entry names the same difference; and when the entry is saved
\* while the entry the description compared with is still the most recent
\* one, both name the same amount
C16_DeltaAndPercent ==
    [][/\ (NamesChange(panel'.resultDescription) /\ FillInAndCalculate) =>
             /\ carbonLogs # <<>>
             /\ DescribesChange(panel'.resultDescription,
                                appState'.currentCalculation.co2e, MostRecent)
       /\ (StoresEntry /\ NewEntry.notes.remark # "none") =>
             /\ carbonLogs # <<>>
             /\ RemarksChange(NewEntry.notes, currentCalculation.co2e, MostRecent)
       /\ (StoresEntry /\ carbonLogs # <<>> /\ out.path = "success"
              /\ NamesChange(panel.resultDescription)
              /\ out.previous = MostRecent) =>
             /\ NewEntry.notes.remark # "none"
             /\ NewEntry.notes.amount = panel.resultDescription.amount
             /\ (NewEntry.notes.remark = "reduction from previous"
                    <=> panel.resultDescription.comparison = "less")]_vars

\* 5 tonnes were calculated and saved with 4 tonnes as the most recent
\* entry: the description and the notes name 1.00 more, the description 25.0 %
C16_Witness ==
    /\ out.path = "success"
    /\ out.previous # Null
    /\ out.previous.co2e = R(4, 1)
    /\ currentCalculation.co2e = R(5, 1)
    /\ panel.resultDescription.comparison = "more"
    /\ panel.resultDescription.amount.units = 100
    /\ panel.resultDescription.percent.units = 250
    /\ saved.stored
    /\ carbonLogs[Len(carbonLogs)].notes.remark = "increase from previous"
    /\ carbonLogs[Len(carbonLogs)].notes.amount.units = 100

\* how a difference is classified: no significant change up to 0.01 tonnes
Classified(d, same, less, more) ==
    IF Le(MathAbs(d), R(1, 100)) THEN same
    ELSE IF Lt(d, Zero) THEN less
    ELSE more

\* C17: with an entry in the store, the description of a calculation says
\* that it matches the previous one when the difference is at most 0.01 and
\* names a reduction or an increase otherwise, and the notes of a saved
\* entry carry no remark, a reduction or an increase accordingly
C17_SignificantChange ==
    [][/\ (FillInAndCalculate /\ out'.path = "success" /\ carbonLogs # <<>>) =>
             panel'.resultDescription.comparison =
                Classified(DeltaTonnes(appState'.currentCalculation.co2e, MostRecent),
                           "matches your previous calculation", "less", "more")
       /\ (StoresEntry /\ carbonLogs # <<>>) =>
             NewEntry.notes.remark =
                Classified(DeltaTonnes(currentCalculation.co2e, MostRecent),
                           "none", "reduction from previous",
                           "increase from previous")]_vars

\* a step in which getPreviousCalculation is called
CallsGetPrevious ==
    \/ FillInAndCalculate /\ out'.storeReads = 1
    \/ SaveCalculation /\ ~NothingToSave(appState)

\* C18: after a call of getPreviousCalculation the array it obtained from
\* the store holds the entries it held before, in the same order
C18_ReadLeavesLogs ==
    [][CallsGetPrevious => logs' = getCarbonLogs(carbonLogs)]_vars

\* C19: a calculation leaves the store as it is, and the store only changes
\* by a call of saveCalculation that appends one entry, made when an
\* earlier call of calculateFootprint has set the current calculation
C19_OnlySaveAppends ==
    [][carbonLogs' # carbonLogs =>
             /\ ~FillInAndCalculate
             /\ SaveCalculation
             /\ out.called
             /\ currentCalculation # Null
             /\ Len(carbonLogs') = Len(carbonLogs) + 1]_vars

\* a calculation was saved and another one was made a day later, with the
\* saved entry as the previous one
C19_Witness ==
    /\ SavedEntries(carbonLogs) # {}
    /\ out.called /\ out.path = "success"
    /\ out.previous # Null
    /\ "notes" \in DOMAIN out.previous
    /\ currentCalculation.timestamp > out.previous.timestamp

\* C20: the entry a save puts into the store has the co2e, the category and
\* the timestamp of the current calculation, and no step changes or removes
\* an entry the store holds already
C20_EntryAsCalculated ==
    [][/\ StoresEntry =>
             /\ NewEntry.co2e = currentCalculation.co2e
             /\ NewEntry.category = currentCalculation.category
             /\ NewEntry.timestamp = currentCalculation.timestamp
       /\ Len(carbonLogs') >= Len(carbonLogs)
       /\ SubSeq(carbonLogs', 1, Len(carbonLogs)) = carbonLogs]_vars

\* the waste example, -0.026 tonnes, was calculated on day 0 and is in the
\* store on day 1 with that co2e and that day, behind the demo entries and
\* in front of a later entry
C20_Witness ==
    /\ now = 1
    /\ saved.stored
    /\ \E i \in SavedEntries(carbonLogs) :
          /\ carbonLogs[i].co2e = R(-26, 1000)
          /\ carbonLogs[i].timestamp = 0
          /\ 1 < i /\ i < Len(carbonLogs)
          /\ carbonLogs[i + 1].timestamp = 1

\* the footprint the panel shows, with its description
Shown ==
    /\ panel.visible
    /\ elements.resultDescription
    /\ currentCalculation # Null

\* C21: a displayed value above 0 and below 4 has the text 'below the global
\* average', a value from 4 and below 8 the text 'close to the global
\* average', a value from 8 the text 'above average', and no other base
\* text is shown for a value other than 0
C21_BaseDescription ==
    (Shown /\ Gt(currentCalculation.co2e, Zero)) =>
        /\ Lt(currentCalculation.co2e, R(4, 1)) =>
              panel.resultDescription.base = "below the global average"
        /\ (Le(R(4, 1), currentCalculation.co2e) /\ Lt(currentCalculation.co2e, R(8, 1))) =>
              panel.resultDescription.base = "close to the global average"
        /\ Le(R(8, 1), currentCalculation.co2e) =>
              panel.resultDescription.base = "above average"
        /\ panel.resultDescription.base \in
              {"below the global average", "close to the global average",
               "above average"}

\* exactly 8 tonnes are shown as above average
C21_Witness ==
    /\ Shown
    /\ currentCalculation.co2e = R(8, 1)
    /\ panel.resultDescription.base = "above average"

\* a click on the save button during which the store fails
FailsToStore == saved'.alert = "Error saving calculation" /\ SaveCalculation

\* C22: saveCalculation without a current calculation leaves the store, the
\* app state, the panel and the save button as they are; the store only
\* grows when there is a current calculation; and a save during which the
\* store fails leaves the app state and the store as they are and the save
\* button enabled with its text
C22_NothingToSave ==
    [][/\ (NothingToSave(appState) /\ SaveCalculation) =>
             /\ carbonLogs' = carbonLogs
             /\ appState' = appState
             /\ panel' = panel
             /\ saveBtn' = saveBtn
             /\ logs' = logs
       /\ Len(carbonLogs') > Len(carbonLogs) => currentCalculation # Null
       /\ FailsToStore =>
             /\ carbonLogs' = carbonLogs
             /\ appState' = appState
             /\ ~saveBtn'.disabled
             /\ saveBtn'.textContent = saveBtn.textContent]_vars

\* the store has failed to take a calculation after it took an earlier one
C22_Witness ==
    /\ saved.alert = "Error saving calculation"
    /\ currentCalculation # Null
    /\ ~saveBtn.disabled
    /\ SavedEntries(carbonLogs) # {}


\* the saved entries no entry of the store is later than
LatestSaved(store) ==
    {i \in SavedEntries(store) :
        \A j \in 1..Len(store) : LogDate(store[j]) <= LogDate(store[i])}

\* C23: a save stores the current calculation's co2e and timestamp, and a
\* calculation made while no stored entry is later than a saved one obtains
\* from getPreviousCalculation, and hands to displayCalculationResult, an
\* entry with the co2e of that saved one, whatever was calculated and saved
\* before
C23_ComparesWithSaved ==
    [][/\ StoresEntry =>
             /\ NewEntry.co2e = currentCalculation.co2e
             /\ LogDate(NewEntry) = currentCalculation.timestamp
       /\ (out'.path = "success" /\ FillInAndCalculate) =>
             \A i \in LatestSaved(carbonLogs) :
                /\ out'.previous # Null
                /\ out'.previous.co2e = carbonLogs[i].co2e
                /\ out'.previous = getPreviousCalculation(carbonLogs)]_vars

\* a calculation was made after two calculations with different results had
\* been saved, and it was compared with the later of the two
C23_Witness ==
    /\ out.called /\ out.path = "success"
    /\ out.previous # Null
    /\ currentCalculation.timestamp > LogDate(out.previous)
    /\ \E i \in LatestSaved(carbonLogs) : \E j \in SavedEntries(carbonLogs) :
          /\ out.previous = carbonLogs[i]
          /\ j < i
          /\ LogDate(carbonLogs[j]) < LogDate(carbonLogs[i])
          /\ carbonLogs[j].co2e # carbonLogs[i].co2e

\* C24: the value a calculation displays is neither negative nor NaN, a
\* negative or NaN total is displayed as 0.00 with the text asking for
\* values, and the co2e a save stores is, with two decimals, the value the
\* panel displays for that calculation
C24_ShownIsStored ==
    [][/\ (out'.path = "success" /\ FillInAndCalculate) =>
             /\ ~panel'.resultValue.nan
             /\ ~panel'.resultValue.neg
             /\ (IsNaN(currentCalculation'.co2e) \/ Lt(currentCalculation'.co2e, Zero)) =>
                    /\ panel'.resultValue = toFixed(Zero, 2)
                    /\ panel'.resultDescription.base = "Enter values in any category"
       /\ StoresEntry => toFixed(NewEntry.co2e, 2) = panel.resultValue]_vars

\* C25: initializeApp writes the demo entries only in demo mode and only
\* into an empty store, a store that holds an entry is left as it is, and
\* no step changes or removes an entry that was saved
C25_DemoOnlyIntoEmptyStore ==
    [][/\ ProfileLoaded =>
             IF Len(carbonLogs) = 0 /\ DemoMode(getConfig(CONFIG))
             THEN carbonLogs' = DemoLogs(now)
             ELSE carbonLogs' = carbonLogs
       /\ \A i \in SavedEntries(carbonLogs) :
             i <= Len(carbonLogs') /\ carbonLogs'[i] = carbonLogs[i]]_vars

\* in demo mode the page has been loaded a second time and initializeApp has
\* finished, and the store holds, in front, an entry that was saved while
\* the first load was under way
C25_Witness ==
    /\ DemoMode(getConfig(CONFIG))
    /\ now > 0
    /\ account.handler = "profile"
    /\ ~api.loading
    /\ 1 \in SavedEntries(carbonLogs)

\* a click on the export button that calls api.exportToCSV()
ExportsCsv == account'.handler = "export" /\ account'.ok /\ HandleExport

\* a login, and a logout, that the api has accepted
LoginSucceeds  == account'.handler = "login" /\ account'.ok /\ HandleLogin
LogoutSucceeds == account'.handler = "logout" /\ account'.ok /\ HandleLogout

\* an export is made only with isPremium or in demo mode, a login leaves the
\* user and the user's flag in appState, a logout leaves neither
GatedExport ==
    /\ ExportsCsv => (appState.isPremium \/ DemoMode(getConfig(CONFIG)))
    /\ LoginSucceeds =>
          /\ appState'.userData = account'.result
          /\ appState'.isPremium = IsPremiumOrFalse(account'.result)
    /\ LogoutSucceeds =>
          /\ ~appState'.isPremium
          /\ appState'.userData = Null

\* C26: the export is gated, login and logout set appState, and with demo
\* mode off no export is made after a logout that neither a login of a
\* premium user nor a subscription-updated event with isPremium true has
\* followed
C26_NoExportAfterLogout ==
    [][/\ GatedExport
       /\ (ExportsCsv /\ ~DemoMode(getConfig(CONFIG))) => ~account.afterLogout]_vars

\* what holds instead: the export is gated, login and logout set appState,
\* and isPremium turns true only in a login, a signup or a profile load
\* that returns a premium user, or in a subscription-updated event with
\* isPremium true
PremiumOnlyFromApi ==
    [][/\ GatedExport
       /\ (~appState.isPremium /\ appState'.isPremium) =>
             /\ account'.handler \in {"login", "signup", "profile", "subscription"}
             /\ account'.ok
             /\ IsPremiumOrFalse(account'.result)]_vars
====
